---- MODULE Spec2Model ----
(***************************************************************************)
(* Producer/consumer pipeline of strela-rs.                                *)
(*                                                                         *)
(*   render thread   : loop { run_iteration }          (src/src/render.rs) *)
(*   display tick    : RenderViewCallback::prepare     (src/src/main.rs)   *)
(*   interactive     : Editor::update, camera updates  (src/src/main.rs)   *)
(*   settings writer : the holder of the other end of Arc<Mutex<Settings>>;*)
(*                     its code is not part of src/ and is modelled from   *)
(*                     the specification (sections 3 and 5).               *)
(*                                                                         *)
(* A Vec<Color> is a sequence of colours, a Color is a 4-tuple, indices    *)
(* are 1-based (pixel (i, j) of the source is element i * Width + j + 1).  *)
(***************************************************************************)
EXTENDS Integers, Sequences, FiniteSets, TLC

\* ---------------------------------------------------------------- bounds
\* result_width and result_height (256 x 256 in main), scaled down.
Width == 2
Height == 2
\* Iterations of the render loop that are explored.
MaxIter == 3
\* Calls of Updater::update that are explored.
MaxUpdates == 2

\* ---------------------------------------------------------------- values
\* Color::new(r, g, b, a)
NewColor(r, g, b, a) == <<r, g, b, a>>

\* Color::default(): the derived Default of [f32; 4]
DefaultColor == <<0, 0, 0, 0>>

\* Values of Settings::color the settings writer may store.
SettingsColors == {<<1, 0, 0>>, <<0, 1, 0>>}

\* Variant: the camera channel is created holding no value.
NoInitialMatrix == [m |-> "none", n |-> 0]

\* Mat4::identity(), the value the camera channel is created with.
IdentityMatrix == [m |-> "identity", n |-> 0]

\* glm::perspective(1.0, 45.0, 0.1, 1000.0) as sent by the n-th update call.
\* Every call sends the same matrix; n tells the calls apart.
PerspectiveMatrix(n) == [m |-> "perspective", n |-> n]

None == [m |-> "none", n |-> 0]

NumPixels == Width * Height

\* Variant: the buffer is allocated with width elements only.
BlankImageOneRow == [x \in 1..Width |-> DefaultColor]

\* vec![Color::default(); (width * height) as usize]
BlankImage == [x \in 1..NumPixels |-> DefaultColor]

VARIABLES
    pc,               \* render thread: "idle", "lock", "clone", "compute",
                      \* "publish", "ret", "dead"
    iter,             \* number of run_iteration calls started so far
    latest_set,       \* single_value_channel: value written, not yet taken
    latest,           \* single_value_channel::Receiver::latest
    camera_matrix,    \* run_iteration: local camera_matrix
    nUpdates,         \* number of Updater::update calls so far
    unread,           \* history: update calls since the last latest() call
    reads,            \* history: the latest() calls, in order: the value
                      \* returned (v), the update calls made since the call
                      \* before (unread) and since the start (written)
    updAfterEnd,      \* history: update calls made after the render thread
                      \* had ended
    settings,         \* Settings::color behind the mutex
    holder,           \* owner of the settings mutex: "free", "producer"
    poisoned,         \* poison flag of the settings mutex
    uiPc,             \* settings writer: "idle", "waiting"
    uiColor,          \* colour the waiting settings writer wants to store
    bg_color,         \* run_iteration: local bg_color
    snap,             \* history: Settings::color as read under the lock
    image_data,       \* run_iteration: local image_data
    k,                \* run_iteration: pixels written so far
    ctx_image_data,   \* PathTracerRenderContext::image_data
    queue,            \* frames inside the crossbeam channel
    sendResult,       \* result of the last try_send: "none", "ok", "full"
    staging_buffer,   \* FullScreenTriangleRenderResources::staging_buffer
    result_texture,   \* FullScreenTriangleRenderResources::result_texture
    uploads,          \* number of write_buffer calls so far
    lastPoll,         \* result of the last try_recv: "none", "frame", "empty"
    attempts,         \* history: frames handed to try_send, in order
    published,        \* history: frames try_send accepted, in order
    delivered         \* history: frames try_recv returned, in order

vars == <<pc, iter, latest_set, latest, camera_matrix, nUpdates, unread,
          reads, updAfterEnd, settings, holder, poisoned, uiPc, uiColor, bg_color, snap, image_data,
          k, ctx_image_data, queue, sendResult, staging_buffer, result_texture,
          uploads, lastPoll, attempts, published, delivered>>

producerVars == <<pc, iter, camera_matrix, bg_color, snap, image_data, k,
                  ctx_image_data, sendResult>>
cameraVars == <<latest_set, latest, nUpdates, unread, reads, updAfterEnd>>
settingsVars == <<settings, holder, poisoned>>
uiVars == <<uiPc, uiColor>>
consumerVars == <<staging_buffer, result_texture, uploads, lastPoll>>
historyVars == <<attempts, published, delivered>>

\* ------------------------------------------------- camera / input channel
\* Variant: a value already waiting in the slot is kept (first write wins).
UpdateSlotKeepFirst(slot, v) == IF slot = None THEN v ELSE slot

\* single_value_channel::Updater::update: the stored value is replaced.
UpdateSlot(slot, v) == v

\* Variant: the slot is taken as it is, also when nothing was written.
TakeLatestEmptied(slot, cur) == slot

\* Variant: the value held before is returned, a written one is not taken.
TakeLatestStale(slot, cur) == cur

\* single_value_channel::Receiver::latest: a written value, when there is
\* one, is taken out of the slot and becomes the receiver's latest.
TakeLatest(slot, cur) == IF slot = None THEN cur ELSE slot

\* ---------------------------------------------------------- frame channel
\* Variant: the queued frame is the context's buffer, not the local clone
\* the iteration wrote.
TrySendShared(q, frame) ==
    [result |-> "ok",
     queue |-> Append(q, [id |-> frame.id, data |-> ctx_image_data])]

\* Sender::try_send on the channel made by crossbeam_channel::unbounded():
\* there is no capacity, the frame is always queued at the back.
TrySend(q, frame) == [result |-> "ok", queue |-> Append(q, frame)]

\* Variant: the frame at the back is returned (last in, first out).
TryRecvLifo(q) ==
    IF q = <<>>
    THEN [ok |-> FALSE, image |-> <<>>, queue |-> q]
    ELSE [ok |-> TRUE, image |-> q[Len(q)], queue |-> SubSeq(q, 1, Len(q) - 1)]

\* Variant: on an empty channel the frame returned last is returned again.
TryRecvStale(q) ==
    IF q = <<>>
    THEN IF delivered = <<>>
         THEN [ok |-> FALSE, image |-> <<>>, queue |-> q]
         ELSE [ok |-> TRUE, image |-> delivered[Len(delivered)], queue |-> q]
    ELSE [ok |-> TRUE, image |-> Head(q), queue |-> Tail(q)]

\* Variant: the channel is drained and the newest frame is returned.
TryRecvDrain(q) ==
    IF q = <<>>
    THEN [ok |-> FALSE, image |-> <<>>, queue |-> q]
    ELSE [ok |-> TRUE, image |-> q[Len(q)], queue |-> <<>>]

\* Variant: the frame at the front is returned and left in the channel.
TryRecvPeek(q) ==
    IF q = <<>>
    THEN [ok |-> FALSE, image |-> <<>>, queue |-> q]
    ELSE [ok |-> TRUE, image |-> Head(q), queue |-> q]

\* Receiver::try_recv: the frame at the front, or nothing when empty.
TryRecv(q) ==
    IF q = <<>>
    THEN [ok |-> FALSE, image |-> <<>>, queue |-> q]
    ELSE [ok |-> TRUE, image |-> Head(q), queue |-> Tail(q)]

\* ------------------------------------------------------------ render loop
\* Body of the pixel loop: white, the background colour on the diagonal.
PixelColor(i, j, bg) == IF i = j THEN bg ELSE NewColor(1, 1, 1, 1)

\* Variant: the red and green fields are taken in the wrong order.
BgColorSwapped(color) == NewColor(color[2], color[1], color[3], 1)

\* bg_color as built from the locked settings.
BgColor(color) == NewColor(color[1], color[2], color[3], 1)

Init ==
    /\ pc = "idle"
    /\ iter = 0
    /\ latest_set = None
    /\ latest = IdentityMatrix
    /\ camera_matrix = None
    /\ nUpdates = 0
    /\ unread = 0
    /\ reads = <<>>
    /\ updAfterEnd = 0
    /\ settings \in SettingsColors
    /\ holder = "free"
    /\ poisoned = FALSE
    /\ uiPc = "idle"
    /\ uiColor = <<0, 0, 0>>
    /\ bg_color = DefaultColor
    /\ snap = <<0, 0, 0>>
    /\ image_data = <<>>
    /\ k = 0
    /\ ctx_image_data = BlankImage
    /\ queue = <<>>
    /\ sendResult = "none"
    /\ staging_buffer = BlankImage
    /\ result_texture = BlankImage
    /\ uploads = 0
    /\ lastPoll = "none"
    /\ attempts = <<>>
    /\ published = <<>>
    /\ delivered = <<>>

\* loop { if let Ok(mut p) = pt_render.write() { run_iteration(&mut p) } }
\* and the first statement of run_iteration: camera_matrix = latest().
\* Only the render thread ever locks the RwLock, so write() succeeds at once.
StartIteration ==
    /\ pc = "idle"
    /\ iter < MaxIter
    /\ iter' = iter + 1
    /\ latest' = TakeLatest(latest_set, latest)
    /\ latest_set' = None
    /\ camera_matrix' = latest'
    /\ unread' = 0
    /\ reads' = Append(reads,
           [v |-> camera_matrix', unread |-> unread, written |-> nUpdates])
    /\ pc' = "lock"
    /\ UNCHANGED <<nUpdates, updAfterEnd, bg_color, snap, image_data, k, ctx_image_data,
                   sendResult>>
    /\ UNCHANGED <<settingsVars, uiVars, queue, consumerVars, historyVars>>

\* Variant: the poison flag is ignored (as with into_inner on the error).
LockResultIgnorePoison(p) == "ok"

\* Mutex::lock on the settings mutex once it is acquired: Err on a poisoned
\* mutex, Ok otherwise.
LockResult(p) == IF p THEN "err" ELSE "ok"

\* let settings = pt_ctx.settings.lock().unwrap(); let bg_color = ...
\* lock() waits while the mutex is owned. On a poisoned mutex it returns Err,
\* unwrap panics, the guard inside the error is dropped and the thread ends.
LockSettings ==
    /\ pc = "lock"
    /\ holder = "free"
    /\ IF LockResult(poisoned) = "err"
       THEN /\ pc' = "dead"
            /\ UNCHANGED <<holder, bg_color, snap>>
       ELSE /\ holder' = "producer"
            /\ bg_color' = BgColor(settings)
            /\ snap' = settings
            /\ pc' = "clone"
    /\ UNCHANGED <<iter, camera_matrix, image_data, k, ctx_image_data,
                   sendResult>>
    /\ UNCHANGED <<cameraVars, settings, poisoned, uiVars, queue,
                   consumerVars, historyVars>>

\* let mut image_data = pt_ctx.image_data.lock().unwrap().clone();
CloneImage ==
    /\ pc = "clone"
    /\ image_data' = ctx_image_data
    /\ k' = 0
    /\ pc' = "compute"
    /\ UNCHANGED <<iter, camera_matrix, bg_color, snap, ctx_image_data,
                   sendResult>>
    /\ UNCHANGED <<cameraVars, settingsVars, uiVars, queue, consumerVars,
                   historyVars>>

\* One turn of the inner loop: image_data[i * result_width + j] = col.
ComputePixel ==
    /\ pc = "compute"
    /\ k < NumPixels
    /\ image_data' =
           [image_data EXCEPT ![k + 1] =
               PixelColor(k \div Width, k % Width, bg_color)]
    /\ k' = k + 1
    /\ pc' = IF k + 1 = NumPixels THEN "publish" ELSE "compute"
    /\ UNCHANGED <<iter, camera_matrix, bg_color, snap, ctx_image_data,
                   sendResult>>
    /\ UNCHANGED <<cameraVars, settingsVars, uiVars, queue, consumerVars,
                   historyVars>>

\* Variant: a send that waits for the consumer to empty the channel.
PublishBlocking ==
    /\ pc = "publish"
    /\ queue = <<>>
    /\ queue' = <<[id |-> iter, data |-> image_data]>>
    /\ sendResult' = "ok"
    /\ attempts' = Append(attempts,
            [id |-> iter, data |-> image_data, snap |-> snap])
    /\ published' = Append(published, [id |-> iter, data |-> image_data])
    /\ image_data' = <<>>
    /\ pc' = "ret"
    /\ UNCHANGED <<iter, camera_matrix, bg_color, snap, k, ctx_image_data>>
    /\ UNCHANGED <<cameraVars, settingsVars, uiVars, consumerVars, delivered>>

\* match pt_ctx.tx.try_send(image_data) { Ok(_) => .., Err(_) => .. }
\* The frame is moved into the call.
Publish ==
    /\ pc = "publish"
    /\ LET frame == [id |-> iter, data |-> image_data]
           r == TrySend(queue, frame)
       IN /\ queue' = r.queue
          /\ sendResult' = r.result
          /\ attempts' = Append(attempts,
                  [id |-> iter, data |-> image_data, snap |-> snap])
          /\ published' = IF r.result = "ok"
                          THEN Append(published, frame)
                          ELSE published
    /\ image_data' = <<>>
    /\ pc' = "ret"
    /\ UNCHANGED <<iter, camera_matrix, bg_color, snap, k, ctx_image_data>>
    /\ UNCHANGED <<cameraVars, settingsVars, uiVars, consumerVars, delivered>>

\* Variant: the iteration stores a colour through the guard before the
\* guard is dropped.
ReturnStoring ==
    /\ pc = "ret"
    /\ settings' = <<1, 1, 1>>
    /\ holder' = "free"
    /\ bg_color' = DefaultColor
    /\ snap' = <<0, 0, 0>>
    /\ camera_matrix' = None
    /\ k' = 0
    /\ pc' = "idle"
    /\ UNCHANGED <<iter, image_data, ctx_image_data, sendResult>>
    /\ UNCHANGED <<cameraVars, poisoned, uiVars, queue, consumerVars,
                   historyVars>>

\* End of run_iteration: the locals go out of scope, the MutexGuard named
\* settings among them, which releases the settings mutex.
Return ==
    /\ pc = "ret"
    /\ holder' = "free"
    /\ bg_color' = DefaultColor
    /\ snap' = <<0, 0, 0>>
    /\ camera_matrix' = None
    /\ k' = 0
    /\ pc' = "idle"
    /\ UNCHANGED <<iter, image_data, ctx_image_data, sendResult>>
    /\ UNCHANGED <<cameraVars, settings, poisoned, uiVars, queue,
                   consumerVars, historyVars>>

\* ------------------------------------------------------------ display tick
\* queue.write_buffer(&staging_buffer, 0, cast_slice(image)): the bytes of
\* the image overwrite the buffer from offset 0, the rest keeps its content.
WriteBuffer(buf, image) ==
    [x \in 1..Len(buf) |-> IF x <= Len(image) THEN image[x] ELSE buf[x]]

\* Variant: a tick that first takes the settings mutex.
TickLocking ==
    /\ holder = "free"
    /\ LET r == TryRecv(queue)
       IN IF r.ok
          THEN /\ queue' = r.queue
               /\ staging_buffer' = WriteBuffer(staging_buffer, r.image.data)
               /\ result_texture' = staging_buffer'
               /\ uploads' = uploads + 1
               /\ lastPoll' = "frame"
               /\ delivered' = Append(delivered, r.image)
          ELSE /\ lastPoll' = "empty"
               /\ UNCHANGED <<queue, staging_buffer, result_texture, uploads,
                              delivered>>
    /\ UNCHANGED <<producerVars, cameraVars, settingsVars, uiVars, attempts,
                   published>>

\* RenderViewCallback::prepare: one try_recv; a frame, when one is returned,
\* is written to the staging buffer and copied to the result texture.
Tick ==
    /\ LET r == TryRecv(queue)
       IN IF r.ok
          THEN /\ queue' = r.queue
               /\ staging_buffer' = WriteBuffer(staging_buffer, r.image.data)
               /\ result_texture' = staging_buffer'
               /\ uploads' = uploads + 1
               /\ lastPoll' = "frame"
               /\ delivered' = Append(delivered, r.image)
          ELSE /\ lastPoll' = "empty"
               /\ UNCHANGED <<queue, staging_buffer, result_texture, uploads,
                              delivered>>
    /\ UNCHANGED <<producerVars, cameraVars, settingsVars, uiVars, attempts,
                   published>>

\* ------------------------------------------------------- interactive layer
\* Variant: an update that waits until the reader has taken the value
\* written before.
UpdateCameraWaiting ==
    /\ nUpdates < MaxUpdates
    /\ latest_set = None
    /\ nUpdates' = nUpdates + 1
    /\ unread' = unread + 1
    /\ updAfterEnd' = IF pc = "dead" THEN updAfterEnd + 1 ELSE updAfterEnd
    /\ latest_set' = PerspectiveMatrix(nUpdates + 1)
    /\ UNCHANGED <<latest, reads, producerVars, settingsVars, uiVars, queue,
                   consumerVars, historyVars>>

\* Editor::update on key W: let _ = self.input_tx.update(new_matrix).
\* The Receiver lives in the context main keeps alive, so the value is
\* stored also after the render thread has ended; the Result is dropped.
UpdateCamera ==
    /\ nUpdates < MaxUpdates
    /\ nUpdates' = nUpdates + 1
    /\ unread' = unread + 1
    /\ updAfterEnd' = IF pc = "dead" THEN updAfterEnd + 1 ELSE updAfterEnd
    /\ latest_set' = UpdateSlot(latest_set, PerspectiveMatrix(nUpdates + 1))
    /\ UNCHANGED <<latest, reads, producerVars, settingsVars, uiVars, queue,
                   consumerVars, historyVars>>

\* The settings writer decides to store colour c and goes for the lock.
UiRequestWrite(c) ==
    /\ uiPc = "idle"
    /\ uiPc' = "waiting"
    /\ uiColor' = c
    /\ UNCHANGED <<producerVars, cameraVars, settingsVars, queue,
                   consumerVars, historyVars>>

\* The writer's critical section: lock, store the colour, unlock. On a
\* poisoned mutex lock() fails and nothing is stored.
UiWrite ==
    /\ uiPc = "waiting"
    /\ holder = "free"
    /\ settings' = IF poisoned THEN settings ELSE uiColor
    /\ uiPc' = "idle"
    /\ uiColor' = <<0, 0, 0>>
    /\ UNCHANGED <<holder, poisoned, producerVars, cameraVars, queue,
                   consumerVars, historyVars>>

\* A writer panics inside its critical section: the guard is dropped while
\* unwinding, which marks the mutex poisoned and releases it.
UiPanic ==
    /\ uiPc = "waiting"
    /\ holder = "free"
    /\ ~poisoned
    /\ poisoned' = TRUE
    /\ uiPc' = "idle"
    /\ uiColor' = <<0, 0, 0>>
    /\ UNCHANGED <<settings, holder, producerVars, cameraVars, queue,
                   consumerVars, historyVars>>

Next ==
    \/ StartIteration
    \/ LockSettings
    \/ CloneImage
    \/ ComputePixel
    \/ Publish
    \/ Return
    \/ Tick
    \/ UpdateCamera
    \/ \E c \in SettingsColors : UiRequestWrite(c)
    \/ UiWrite
    \/ UiPanic

Spec == Init /\ [][Next]_vars

\* ------------------------------------------------------------ definitions
Last(seq) == seq[Len(seq)]

\* s appears in t as a subsequence, in the same order.
RECURSIVE IsSubsequence(_, _)
IsSubsequence(s, t) ==
    IF s = <<>> THEN TRUE
    ELSE IF t = <<>> THEN FALSE
    ELSE IF Head(s) = Head(t) THEN IsSubsequence(Tail(s), Tail(t))
    ELSE IsSubsequence(s, Tail(t))

\* What the texture holds when the frames in d have been uploaded in order.
ShownAfter(d) == IF d = <<>> THEN BlankImage ELSE Last(d).data

\* ------------------------------------------------------------------ claims

\* C1: the frame channel is bounded and drops on full. Stated for the
\* capacity of the specification's scenario, C = 1: the channel never holds
\* more than one frame (of two frames published with no poll in between
\* only one is queued, the other is dropped).
C1_BoundedDropOnFull == Len(queue) <= 1

\* C2: a display tick whose poll returns a frame shows the most recently
\* successfully published frame.
C2_ShowsNewestFrame ==
    [][delivered' # delivered =>
          /\ Last(delivered').id = Last(published).id
          /\ result_texture' = Last(published).data]_vars

\* C3: the frames returned by successful polls are, in order, a subsequence
\* of the frames try_send accepted.
C3_FifoDelivery == IsSubsequence(delivered, published)

\* C3 witness: two frames were delivered while a third was still queued.
C3_Witness == Len(delivered) >= 2 /\ Len(queue) >= 1

\* C4: publishing never blocks the producer. Whenever the render thread is
\* at its publish step the step can be taken, whatever the channel holds
\* and whether or not the consumer ever polled; it ends with success or
\* backpressure, and the loop can then go on to its next iteration.
C4_PublishNeverBlocks ==
    /\ pc = "publish" => ENABLED Publish
    /\ pc = "ret" => sendResult \in {"ok", "full"} /\ ENABLED Return
    /\ (pc = "idle" /\ iter < MaxIter) => ENABLED StartIteration

\* C4 witness: the producer is about to publish its third frame and the
\* consumer has never polled.
C4_Witness == pc = "publish" /\ Len(queue) >= 2 /\ lastPoll = "none"

\* C5: the settings mutex is not owned by the render thread while it
\* computes pixels or publishes.
C5_LockNotHeldWhileComputing ==
    pc \in {"compute", "publish"} => holder # "producer"

\* The image an iteration has to produce from the settings colour c it read:
\* (c, alpha 1) on the diagonal, white elsewhere.
ExpectedPixel(x, c) ==
    IF (x - 1) \div Width = (x - 1) % Width
    THEN <<c[1], c[2], c[3], 1>>
    ELSE <<1, 1, 1, 1>>

\* C6: snapshot isolation of the settings. Every frame handed to try_send
\* consists, pixel for pixel, of the settings colour read at that iteration's
\* settings-read step, and so does every pixel the running iteration has
\* written so far, whatever a settings writer attempts meanwhile.
C6_SnapshotIsolation ==
    /\ \A n \in 1..Len(attempts) :
          /\ Len(attempts[n].data) = NumPixels
          /\ \A x \in 1..NumPixels :
                attempts[n].data[x] = ExpectedPixel(x, attempts[n].snap)
    /\ pc \in {"compute", "publish"} =>
          \A x \in 1..k : image_data[x] = ExpectedPixel(x, snap)

\* C6 witness: in the middle of the pixel loop a settings writer is trying
\* to store a colour other than the one the iteration read.
C6_Witness ==
    /\ pc = "compute"
    /\ k >= 1
    /\ uiPc = "waiting"
    /\ uiColor # snap

\* C7: coalescing law. A latest() call that follows N >= 1 update calls with
\* no latest() call in between returns the value of the last of them.
C7_Coalescing ==
    [][(iter' = iter + 1 /\ unread >= 1) =>
          camera_matrix' = PerspectiveMatrix(nUpdates)]_vars

\* C7 witness: the first latest() call of the run came after two update
\* calls and returned the value of the second.
C7_Witness ==
    /\ iter = 1
    /\ pc = "lock"
    /\ nUpdates = 2
    /\ unread = 0
    /\ camera_matrix = PerspectiveMatrix(2)

\* C8: a poll of the empty frame channel returns no frame; on such a tick
\* nothing is uploaded and the shown content stays what it was.
C8_EmptyPoll ==
    [][queue = <<>> =>
          /\ lastPoll' \in {lastPoll, "empty"}
          /\ uploads' = uploads
          /\ staging_buffer' = staging_buffer
          /\ result_texture' = result_texture
          /\ delivered' = delivered]_vars

\* C8 witness: a tick polled the empty channel after a frame had been shown,
\* and the texture still shows that frame.
C8_Witness ==
    /\ lastPoll = "empty"
    /\ uploads >= 1
    /\ queue = <<>>
    /\ result_texture = Last(delivered).data

\* C9: a failed acquisition of the settings mutex ends the render loop: the
\* thread goes from its lock step to its end, stays there, hands no frame of
\* that iteration to the channel and none afterwards; the consumer's state is
\* untouched by the failure and every tick shows the last delivered frame.
C9_LockFailureFatal ==
    [][/\ (pc = "lock" /\ poisoned /\ pc' # pc) =>
             /\ pc' = "dead"
             /\ UNCHANGED <<queue, consumerVars, historyVars>>
       /\ pc = "dead" =>
             /\ pc' = "dead"
             /\ attempts' = attempts
             /\ published' = published
             /\ Len(queue') <= Len(queue)
             /\ \A n \in 1..Len(attempts') : attempts'[n].id # iter'
             /\ result_texture' = ShownAfter(delivered')
             /\ (queue = <<>> => result_texture' = result_texture)]_vars

\* C9 witness: the render thread has ended on a poisoned mutex, every frame
\* it published was delivered, and a later tick found the channel empty.
C9_Witness ==
    /\ pc = "dead"
    /\ published # <<>>
    /\ delivered = published
    /\ lastPoll = "empty"

\* C10: round trip. Every frame a poll returned, and every frame still in
\* the channel, is the frame that was handed to the try_send call of its
\* iteration: same length, same elements.
C10_RoundTrip ==
    \A f \in {delivered[n] : n \in 1..Len(delivered)}
             \cup {queue[n] : n \in 1..Len(queue)} :
        \E n \in 1..Len(attempts) :
            /\ attempts[n].id = f.id
            /\ Len(f.data) = Len(attempts[n].data)
            /\ \A x \in 1..Len(f.data) : f.data[x] = attempts[n].data[x]

\* C10 witness: a frame was polled after a later iteration had already
\* published its own frame.
C10_Witness ==
    /\ delivered # <<>>
    /\ Len(published) >= 2
    /\ Last(delivered).id < Last(published).id

\* C11: frame size invariant. Every frame handed to try_send, in every
\* iteration, and the frame an iteration is working on, has exactly
\* width * height elements.
C11_FrameSize ==
    /\ \A n \in 1..Len(attempts) : Len(attempts[n].data) = Width * Height
    /\ pc \in {"compute", "publish"} => Len(image_data) = Width * Height

\* C11 witness: two iterations have handed their frames to try_send and a
\* third is in its pixel loop.
C11_Witness == Len(attempts) >= 2 /\ pc = "compute" /\ k >= 1

\* C12: idempotence of latest(). A latest() call that follows another with
\* no update call in between returns the value the earlier call returned,
\* and such a call leaves the stored value as it is.
C12_LatestIdempotent ==
    /\ \A i \in 2..Len(reads) :
          reads[i].unread = 0 => reads[i].v = reads[i - 1].v
    /\ (reads # <<>> /\ unread = 0) => latest = Last(reads).v

\* C12 witness: two consecutive latest() calls with no update between them
\* both returned the matrix an earlier update had written.
C12_Witness ==
    \E i \in 2..Len(reads) :
        /\ reads[i].unread = 0
        /\ reads[i].v.m = "perspective"
        /\ reads[i - 1].v = reads[i].v

\* C13: the camera channel is never without a value and starts at the
\* identity transform: while no update call has been made, every latest()
\* call returned the identity, and the receiver always holds a value.
C13_StartsAtIdentity ==
    /\ latest.m \in {"identity", "perspective"}
    /\ \A i \in 1..Len(reads) : reads[i].v.m \in {"identity", "perspective"}
    /\ nUpdates = 0 =>
          \A i \in 1..Len(reads) : reads[i].v = [m |-> "identity", n |-> 0]

\* C13 witness: every explored iteration has called latest(), no update
\* was ever made, and the last call returned the identity.
C13_Witness ==
    /\ Len(reads) = MaxIter
    /\ nUpdates = 0
    /\ Last(reads).v = [m |-> "identity", n |-> 0]

\* C14: update() never blocks the interactive layer, also once the render
\* thread has ended: in every state an update call can be made, it ends in
\* one step, and nothing of it surfaces: the render thread, the settings
\* writer, the frame channel and the display are left as they were, and the
\* value the reader last returned stays what it was.
C14_UpdateNeverBlocksNorFails ==
    nUpdates < MaxUpdates =>
        ENABLED (/\ UpdateCamera
                 /\ UNCHANGED <<producerVars, latest, reads, settingsVars,
                                uiVars, queue, consumerVars, historyVars>>)

\* C14 witness: two update calls were made after the render thread had
\* ended on a poisoned mutex.
C14_Witness == pc = "dead" /\ updAfterEnd >= 2

\* C15: the consumer never waits for the producer. In every state a display
\* tick can be taken and ends in one step, whether the producer has never
\* published, is in the middle of an iteration owning the settings mutex,
\* or has ended; the tick leaves the settings mutex and the render thread
\* as they are.
C15_ConsumerNeverWaits ==
    ENABLED (Tick /\ UNCHANGED <<producerVars, settingsVars>>)

\* C15 witness: the producer owns the settings mutex in the middle of its
\* first iteration, nothing was ever published, and a tick has polled.
C15_Witness ==
    /\ pc = "compute"
    /\ holder = "producer"
    /\ attempts = <<>>
    /\ lastPoll = "empty"

\* C16: a display tick polls once. A step that removes a frame from the
\* channel removes exactly the front one, uploads it once and makes it the
\* shown content; the frames behind it stay queued, in order.
C16_OnePollPerTick ==
    [][(Len(queue') < Len(queue) \/ delivered' # delivered
            \/ uploads' # uploads) =>
          /\ queue # <<>>
          /\ queue' = Tail(queue)
          /\ delivered' = Append(delivered, Head(queue))
          /\ uploads' = uploads + 1
          /\ result_texture' = Head(queue).data
          /\ lastPoll' = "frame"]_vars

\* C16 witness: the last tick showed a frame and left two more queued.
C16_Witness ==
    /\ lastPoll = "frame"
    /\ Len(queue) >= 2
    /\ uploads = Len(delivered)
    /\ result_texture = Last(delivered).data

\* C17: the context's pixel buffer is updated in place: once an iteration
\* has handed its frame to try_send, and after it has returned, the
\* context's own buffer holds the pixels of that frame.
C17_BufferUpdatedInPlace ==
    (attempts # <<>> /\ pc \in {"ret", "idle"}) =>
        ctx_image_data = Last(attempts).data

\* C18: camera freshness. Every iteration that has started has called
\* latest() exactly once, before anything else, and the call returned the
\* value of the last update call completed before it (the identity when
\* there was none), never an older one.
C18_CameraFreshness ==
    /\ Len(reads) = iter
    /\ \A i \in 1..Len(reads) :
          reads[i].v = IF reads[i].written = 0
                       THEN [m |-> "identity", n |-> 0]
                       ELSE [m |-> "perspective", n |-> reads[i].written]
    /\ pc \in {"lock", "clone", "compute", "publish", "ret"} =>
          camera_matrix = Last(reads).v

\* C18 witness: an update completed between two iterations and the second
\* of them read its value.
C18_Witness ==
    \E i \in 2..Len(reads) :
        /\ reads[i].unread >= 1
        /\ reads[i].v.n = reads[i].written
        /\ reads[i - 1].v # reads[i].v

\* C19: the producer only reads the settings. No step of the render thread
\* changes the settings value, and the local copy of the colour is made
\* once per iteration, at the step that takes the mutex.
C19_ProducerOnlyReadsSettings ==
    [][/\ (pc' # pc \/ k' # k) => settings' = settings
       /\ (bg_color' # bg_color /\ pc # "ret") =>
             /\ pc = "lock"
             /\ holder' = "producer"
             /\ snap' = settings]_vars

\* C19 witness: a second iteration has published and is about to return,
\* and the settings still hold the colour it read.
C19_Witness ==
    /\ pc = "ret"
    /\ Len(attempts) >= 2
    /\ settings = snap

\* C20: no frame is duplicated or invented. Every iteration that has
\* reached its publish step made exactly one attempt, no frame was returned
\* by two polls, every frame returned had been published, and no more
\* frames were delivered than published.
C20_NoDuplication ==
    /\ Len(attempts) = IF pc \in {"ret", "idle"} THEN iter ELSE iter - 1
    /\ \A n \in 1..Len(attempts) : attempts[n].id = n
    /\ \A i, j \in 1..Len(delivered) :
          i # j => delivered[i].id # delivered[j].id
    /\ \A i \in 1..Len(delivered) :
          \E n \in 1..Len(published) : published[n] = delivered[i]
    /\ Len(delivered) <= Len(published)

\* C20 witness: two frames were delivered and a third, published, was not.
C20_Witness == Len(delivered) >= 2 /\ Len(published) > Len(delivered)

====
